---- MODULE Spec2Model ----
(***************************************************************************)
(* Model of tbi.py, a Streamlit script.  Streamlit runs the script from    *)
(* top to bottom once per user interaction; an uncaught exception ends the *)
(* run at the statement that raised it.  The state is the three files on   *)
(* disk, the st.cache_data memo of load_data, the widget values, and the   *)
(* script's globals and output for the current run.                        *)
(***************************************************************************)
EXTENDS Integers, Sequences, FiniteSets, TLC

\* ---------------------------------------------------------------- bounds
MaxRows  == 2      \* rows of a table drawn for Init
MaxVal   == 2      \* largest number_est / diagnosed in a drawn row
MaxReads == 2      \* reruns stop once a file has been read this often

\* ------------------------------------------------------------- constants
NA == 0 - 1        \* an empty numeric cell as read_csv returns it (NaN)
HeadRows == 5      \* DataFrame.head() default

Files == {"tbi_age.csv", "tbi_military.csv", "tbi_year.csv"}
ReadOrder == <<"tbi_age.csv", "tbi_military.csv", "tbi_year.csv">>
Sections == {"Introduction", "Data Exploration", "Visualizations", "Conclusions"}
Datasets == {"Civilian Data", "Military Data", "Yearly Combined Data"}
\* a file on disk: a table read_csv parses, or one it raises on
File(t) == [ok |-> TRUE, rows |-> t]
BAD == [ok |-> FALSE, rows |-> <<>>]

recruitment_numbers ==
    ("Army" :> 4849638) @@ ("Navy" :> 3010086) @@
    ("Marines" :> 1738625) @@ ("Air Force" :> 2987583)

explode == <<1, 1, 1, 1>>    \* tenths; only its length is used

\* groupby sorts its keys; the services of the model in that order
ServiceOrder == <<"Air Force", "Army", "Coast Guard", "Marines", "Navy">>

\* ------------------------------------------------------- floating values
NaN == [kind |-> "nan"]
Inf == [kind |-> "inf"]
Num(n, d) == [kind |-> "num", num |-> n, den |-> d]

\* mutant: a division by zero gives 0
Div_ZeroFilled(x, d) ==
    IF x.kind # "num" THEN x
    ELSE IF d = 0 THEN Num(0, 1)
    ELSE Num(x.num, x.den * d)

\* x / d for a float x and a number d, as numpy divides
Div(x, d) ==
    IF x.kind # "num" THEN x
    ELSE IF d = 0 THEN (IF x.num = 0 THEN NaN ELSE Inf)
    ELSE Num(x.num, x.den * d)

\* x * k for a float x and a number k
Mul(x, k) == IF x.kind = "num" THEN Num(x.num * k, x.den) ELSE x

\* ------------------------------------------------------ pandas operators
RECURSIVE SumSeq(_)
\* Series.sum(): skips NaN, 0 for an empty series
SumSeq(s) ==
    IF s = <<>> THEN 0
    ELSE (IF Head(s) = NA THEN 0 ELSE Head(s)) + SumSeq(Tail(s))

Column(t, col) == [i \in 1..Len(t) |-> t[i][col]]

Keys(t, col) == {t[i][col] : i \in 1..Len(t)}

\* mutant: .first() in place of .sum()
GroupBy2Sum_First(t, g, c, v) ==
    [k \in {<<t[i][g], t[i][c]>> : i \in 1..Len(t)} |->
        SumSeq(<<Head(Column(SelectSeq(t, LAMBDA r : r[g] = k[1] /\ r[c] = k[2]), v))>>)]

\* t.groupby([g, c])[v].sum(): one entry per (g, c) pair that occurs
GroupBy2Sum(t, g, c, v) ==
    [k \in {<<t[i][g], t[i][c]>> : i \in 1..Len(t)} |->
        SumSeq(Column(SelectSeq(t, LAMBDA r : r[g] = k[1] /\ r[c] = k[2]), v))]

\* t.groupby(g)[v].sum()
GroupBySum(t, g, v) ==
    [k \in Keys(t, g) |->
        SumSeq(Column(SelectSeq(t, LAMBDA r : r[g] = k), v))]

\* .unstack(): rows are the first key, columns the second, NaN where the
\* pair does not occur
Unstack(S) ==
    [p \in {k[1] : k \in DOMAIN S} \X {k[2] : k \in DOMAIN S} |->
        IF p \in DOMAIN S THEN Num(S[p], 1) ELSE NaN]

\* mutant: every row is divided by the total of the first group
DivRows_FirstTotal(F, tot) ==
    [p \in DOMAIN F |->
        Mul(Div(F[p], tot[CHOOSE k \in DOMAIN tot : TRUE]), 100)]

\* frame.div(series, axis=0) * 100
DivRows(F, tot) == [p \in DOMAIN F |-> Mul(Div(F[p], tot[p[1]]), 100)]

proportionsByGroup(t, g, c, v) ==
    DivRows(Unstack(GroupBy2Sum(t, g, c, v)), GroupBySum(t, g, v))

\* the frame is empty: DataFrame.plot raises "no numeric data to plot"
PlotRaises(F) == DOMAIN F = {}

\* ---- per-capita table
RECURSIVE Insert(_, _)
\* insertion into a list sorted by diagnosed, after equal elements
Insert(r, s) ==
    IF s = <<>> THEN <<r>>
    ELSE IF r.diagnosed < Head(s).diagnosed THEN <<r>> \o s
    ELSE <<Head(s)>> \o Insert(r, Tail(s))

RECURSIVE SortByDiagnosed(_)
\* sort_values(by='diagnosed', ascending=True); stable for short frames
SortByDiagnosed(s) ==
    IF s = <<>> THEN <<>>
    ELSE Insert(s[Len(s)], SortByDiagnosed(SubSeq(s, 1, Len(s) - 1)))

\* military.groupby('service').agg({'diagnosed': 'sum'}).reset_index()
ServiceSums(m) ==
    LET S == GroupBySum(m, "service", "diagnosed")
        present == SelectSeq(ServiceOrder, LAMBDA s : s \in DOMAIN S)
    IN  [i \in 1..Len(present) |->
            [service |-> present[i], diagnosed |-> S[present[i]]]]

\* mutant: .map(...).fillna(1)
MapRecruited_Filled(service) ==
    IF service \in DOMAIN recruitment_numbers
    THEN Num(recruitment_numbers[service], 1) ELSE Num(1, 1)

\* Series.map(dict): NaN for a key the dict lacks
MapRecruited(service) ==
    IF service \in DOMAIN recruitment_numbers
    THEN Num(recruitment_numbers[service], 1) ELSE NaN

\* mutant: diagnosed / recruited * 100
PerThousand_Percent(diagnosed, recruited) ==
    IF recruited.kind # "num" THEN NaN
    ELSE Mul(Div(Num(diagnosed, 1), recruited.num), 100)

\* diagnosed / recruited * 1000
PerThousand(diagnosed, recruited) ==
    IF recruited.kind # "num" THEN NaN
    ELSE Mul(Div(Num(diagnosed, 1), recruited.num), 1000)

AddColumns(d) ==
    [i \in 1..Len(d) |->
        [service |-> d[i].service, diagnosed |-> d[i].diagnosed,
         recruited |-> MapRecruited(d[i].service),
         diagnosed_per_1000 |->
            PerThousand(d[i].diagnosed, MapRecruited(d[i].service))]]

perCapitaByService(m) == AddColumns(SortByDiagnosed(ServiceSums(m)))

\* mutant: the columns are assigned to military itself
PerCapitaStep_InPlace(m) ==
    [military |-> [i \in 1..Len(m) |->
                      [service |-> m[i].service, diagnosed |-> m[i].diagnosed,
                       recruited |-> MapRecruited(m[i].service)]],
     military_service_data |-> perCapitaByService(m)]

\* the two frames after the per-capita statements: groupby, reset_index and
\* sort_values return new frames, the two column assignments go to the new
\* frame, and military stays what it was
PerCapitaStep(m) ==
    [military |-> m, military_service_data |-> perCapitaByService(m)]

\* mutant: no explode argument, so no length to differ
PieRaises_Never(d) == FALSE

\* ax.pie: raises when explode and x differ in length
PieRaises(d) == Len(d) # Len(explode)

\* ax.pie on a NaN value or an all-zero x: the wedge angles are NaN, which
\* the library version decides to draw or to raise on
PieUndefined(d) ==
    \/ \E i \in 1..Len(d) : d[i].diagnosed_per_1000.kind # "num"
    \/ \A i \in 1..Len(d) : d[i].diagnosed = 0

\* frame.head()
HeadOf(t) == SubSeq(t, 1, IF Len(t) < HeadRows THEN Len(t) ELSE HeadRows)

\* ------------------------------------------------------- input tables
SeqUpTo(S, n) == UNION {[1..k -> S] : k \in 0..n}

Vals == {NA} \cup (0..MaxVal)

AgeRows == [age_group : {"0-4", "5-14"},
            type : {"Deaths", "Hospitalizations"}, number_est : Vals]
YearRows == [year : {2006, 2007},
             type : {"Deaths", "Hospitalizations"}, number_est : Vals]
MilitaryRows == [service : {"Army", "Coast Guard"}, diagnosed : Vals]

BaseAge == << [age_group |-> "0-4", type |-> "Deaths", number_est |-> 1],
              [age_group |-> "0-4", type |-> "Hospitalizations", number_est |-> 2] >>
BaseYear == << [year |-> 2006, type |-> "Deaths", number_est |-> 1] >>
Base3 == << [service |-> "Army", diagnosed |-> 2],
            [service |-> "Navy", diagnosed |-> 1],
            [service |-> "Marines", diagnosed |-> 1] >>
Base4 == Base3 \o << [service |-> "Air Force", diagnosed |-> 0] >>

AgeTables == SeqUpTo(AgeRows, MaxRows)
YearTables == SeqUpTo(YearRows, MaxRows)
MilitaryTables ==
    {b \o e : b \in {<<>>, Base3, Base4}, e \in SeqUpTo(MilitaryRows, MaxRows)}

\* ------------------------------------------------------------------ state
VARIABLES
    disk,            \* file name -> File(table) or BAD; the files are static
                     \* data and do not change while the process runs
    cached,          \* st.cache_data holds load_data's result
    cache,           \* that result
    reads,           \* file name -> number of read_csv calls so far
    callReads,       \* files read by the load_data call of this run
    radio,           \* value of the section radio
    selectbox,       \* value of the dataset selectbox
    pc,              \* position of the script run
    loaded,          \* age, military, year are bound
    age, military, year,
    section, dataset_choice,
    proportions_by_age_type, proportions_by_year_type,
    military_service_data,
    rendered,        \* elements sent to the page in this run
    written,         \* the table st.write showed
    computed,        \* the aggregations evaluated in this run
    error            \* the exception that ended the run

vars == <<disk, cached, cache, reads, callReads, radio, selectbox, pc, loaded,
          age, military, year, section, dataset_choice,
          proportions_by_age_type, proportions_by_year_type,
          military_service_data, rendered, written, computed, error>>

\* groups of variables the actions leave alone
process == <<disk, cached, cache, reads>>
widgets == <<radio, selectbox>>
tables  == <<loaded, age, military, year>>
derived == <<proportions_by_age_type, proportions_by_year_type,
             military_service_data>>

NoError == [type |-> "none", names |-> {}]
\* an exception of the libraries; its message names no key of the data
Raised(type) == [type |-> type, names |-> {}]

EmptyTables == [a |-> <<>>, m |-> <<>>, y |-> <<>>]

DiskOf(a, m, y) ==
    [f \in Files |-> IF f = "tbi_age.csv" THEN a
                     ELSE IF f = "tbi_military.csv" THEN m ELSE y]

Init ==
    /\ \/ disk \in [Files -> {BAD}]
       \/ \E a \in {File(t) : t \in AgeTables}, m \in {File(Base4), BAD},
             y \in {File(BaseYear), BAD} : disk = DiskOf(a, m, y)
       \/ \E a \in {File(BaseAge), BAD}, m \in {File(t) : t \in MilitaryTables},
             y \in {File(BaseYear), BAD} : disk = DiskOf(a, m, y)
       \/ \E a \in {File(BaseAge), BAD}, m \in {File(Base4), BAD},
             y \in {File(t) : t \in YearTables} : disk = DiskOf(a, m, y)
    /\ cached = FALSE /\ cache = EmptyTables
    /\ reads = [f \in Files |-> 0]
    /\ callReads = <<>>
    /\ radio = "Introduction" /\ selectbox = "Civilian Data"
    /\ pc = "start"
    /\ loaded = FALSE
    /\ age = <<>> /\ military = <<>> /\ year = <<>>
    /\ section = "" /\ dataset_choice = ""
    /\ proportions_by_age_type = <<>>
    /\ proportions_by_year_type = <<>>
    /\ military_service_data = <<>>
    /\ rendered = {} /\ written = <<>> /\ computed = {}
    /\ error = NoError

\* ---------------------------------------------------------------- actions
\* mutant: the Conclusions test sits under the Visualizations test
Branch_Misplaced(s) ==
    IF s = "Introduction" THEN "Introduction"
    ELSE IF s = "Data Exploration" THEN "Data Exploration"
    ELSE IF s \in {"Visualizations", "Conclusions"} THEN "Visualizations"
    ELSE "none"

\* the branch of the if / elif chain on section that runs
Branch(s) ==
    IF s = "Introduction" THEN "Introduction"
    ELSE IF s = "Data Exploration" THEN "Data Exploration"
    ELSE IF s = "Visualizations" THEN "Visualizations"
    ELSE IF s = "Conclusions" THEN "Conclusions"
    ELSE "none"

\* the branch of the if / elif / else chain on dataset_choice that runs
Shown(d) ==
    IF d = "Civilian Data" THEN "Civilian Data"
    ELSE IF d = "Military Data" THEN "Military Data"
    ELSE "Yearly Combined Data"

\* mutant: load_data without the decorator
CacheHit_Never == FALSE

\* @st.cache_data: the call is answered from the memo
CacheHit == cached

\* mutant: every read_csv wrapped so that the next one still runs
ReadPrefix_All == ReadOrder

\* the files load_data reads, in order, up to and including the first that
\* raises
ReadPrefix ==
    LET bad == {i \in 1..Len(ReadOrder) : ~disk[ReadOrder[i]].ok}
        last == IF bad = {} THEN Len(ReadOrder)
                ELSE CHOOSE i \in bad : \A j \in bad : i <= j
    IN  SubSeq(ReadOrder, 1, last)

Occurrences(s, f) == Cardinality({i \in 1..Len(s) : s[i] = f})

\* st.title, st.markdown, then age, military, year = load_data()
LoadData ==
    /\ pc = "start"
    /\ rendered' = rendered \cup {"title"}
    /\ IF CacheHit
       THEN /\ age' = cache.a /\ military' = cache.m /\ year' = cache.y
            /\ loaded' = TRUE /\ pc' = "nav"
            /\ UNCHANGED <<cached, cache, reads, callReads, error>>
       ELSE /\ reads' = [f \in Files |-> reads[f] + Occurrences(ReadPrefix, f)]
            /\ callReads' = ReadPrefix
            /\ IF \E i \in 1..Len(ReadPrefix) : ~disk[ReadPrefix[i]].ok
               THEN /\ error' = Raised("read_csv")
                    /\ pc' = "halted"
                    /\ UNCHANGED <<cached, cache, tables>>
               ELSE /\ cached' = TRUE
                    /\ cache' = [a |-> disk["tbi_age.csv"].rows,
                                 m |-> disk["tbi_military.csv"].rows,
                                 y |-> disk["tbi_year.csv"].rows]
                    /\ age' = disk["tbi_age.csv"].rows
                    /\ military' = disk["tbi_military.csv"].rows
                    /\ year' = disk["tbi_year.csv"].rows
                    /\ loaded' = TRUE /\ pc' = "nav"
                    /\ UNCHANGED error
    /\ UNCHANGED <<disk, widgets, section, dataset_choice, derived, written,
                   computed>>

\* section = st.sidebar.radio(...)
Navigate ==
    /\ pc = "nav"
    /\ section' = radio
    /\ pc' = "section"
    /\ UNCHANGED <<process, callReads, widgets, tables, dataset_choice,
                   derived, rendered, written, computed, error>>

Introduction ==
    /\ pc = "section" /\ Branch(section) = "Introduction"
    /\ rendered' = rendered \cup {"Introduction"}
    /\ pc' = "done"
    /\ UNCHANGED <<process, callReads, widgets, tables, section,
                   dataset_choice, derived, written, computed, error>>

DataExploration ==
    /\ pc = "section" /\ Branch(section) = "Data Exploration"
    /\ dataset_choice' = selectbox
    /\ written' = IF Shown(selectbox) = "Civilian Data" THEN HeadOf(age)
                  ELSE IF Shown(selectbox) = "Military Data" THEN HeadOf(military)
                  ELSE HeadOf(year)
    /\ rendered' = rendered \cup {"Data Exploration", Shown(selectbox)}
    /\ pc' = "done"
    /\ UNCHANGED <<process, callReads, widgets, tables, section, derived,
                   computed, error>>

\* header, then chart 1
VizAgeProportions ==
    /\ pc = "section" /\ Branch(section) = "Visualizations"
    /\ proportions_by_age_type' =
            proportionsByGroup(age, "age_group", "type", "number_est")
    /\ computed' = computed \cup {"proportions_by_age_type"}
    /\ IF PlotRaises(proportions_by_age_type')
       THEN /\ error' = Raised("plot") /\ pc' = "halted"
            /\ rendered' = rendered \cup {"Visualizations"}
       ELSE /\ rendered' = rendered \cup {"Visualizations", "chart1"}
            /\ pc' = "viz2"
            /\ UNCHANGED error
    /\ UNCHANGED <<process, callReads, widgets, tables, section,
                   dataset_choice, proportions_by_year_type,
                   military_service_data, written>>

\* chart 2: sns.violinplot(data=age, ...)
VizMechanism ==
    /\ pc = "viz2"
    /\ rendered' = rendered \cup {"chart2"}
    /\ pc' = "viz3"
    /\ UNCHANGED <<process, callReads, widgets, tables, section,
                   dataset_choice, derived, written, computed, error>>

\* chart 3
VizYearProportions ==
    /\ pc = "viz3"
    /\ proportions_by_year_type' =
            proportionsByGroup(year, "year", "type", "number_est")
    /\ computed' = computed \cup {"proportions_by_year_type"}
    /\ IF PlotRaises(proportions_by_year_type')
       THEN /\ error' = Raised("plot") /\ pc' = "halted"
            /\ UNCHANGED rendered
       ELSE /\ rendered' = rendered \cup {"chart3"}
            /\ pc' = "viz4"
            /\ UNCHANGED error
    /\ UNCHANGED <<process, callReads, widgets, tables, section,
                   dataset_choice, proportions_by_age_type,
                   military_service_data, written>>

\* chart 4
VizPerCapita ==
    /\ pc = "viz4"
    /\ military' = PerCapitaStep(military).military
    /\ military_service_data' = PerCapitaStep(military).military_service_data
    /\ computed' = computed \cup {"military_service_data"}
    /\ \/ /\ \/ PieRaises(military_service_data')
             \/ PieUndefined(military_service_data')
          /\ error' = Raised("pie") /\ pc' = "halted"
          /\ UNCHANGED rendered
       \/ /\ ~PieRaises(military_service_data')
          /\ rendered' = rendered \cup {"chart4"}
          /\ pc' = "viz5"
          /\ UNCHANGED error
    /\ UNCHANGED <<process, callReads, widgets, loaded, age, year, section,
                   dataset_choice, proportions_by_age_type,
                   proportions_by_year_type, written>>

\* chart 5: sns.scatterplot(data=military, ...)
VizCorrelation ==
    /\ pc = "viz5"
    /\ rendered' = rendered \cup {"chart5"}
    /\ pc' = "done"
    /\ UNCHANGED <<process, callReads, widgets, tables, section,
                   dataset_choice, derived, written, computed, error>>

Conclusions ==
    /\ pc = "section" /\ Branch(section) = "Conclusions"
    /\ rendered' = rendered \cup {"Conclusions"}
    /\ pc' = "done"
    /\ UNCHANGED <<process, callReads, widgets, tables, section,
                   dataset_choice, derived, written, computed, error>>

\* a user interaction: Streamlit runs the script again with the widget
\* values; the globals of the previous run are gone
Rerun ==
    /\ pc \in {"done", "halted"}
    /\ \A f \in Files : reads[f] < MaxReads
    /\ radio' \in Sections
    /\ selectbox' \in Datasets
    /\ pc' = "start"
    /\ loaded' = FALSE
    /\ age' = <<>> /\ military' = <<>> /\ year' = <<>>
    /\ section' = "" /\ dataset_choice' = ""
    /\ proportions_by_age_type' = <<>>
    /\ proportions_by_year_type' = <<>>
    /\ military_service_data' = <<>>
    /\ rendered' = {} /\ written' = <<>> /\ computed' = {}
    /\ callReads' = <<>>
    /\ error' = NoError
    /\ UNCHANGED process

Next ==
    \/ LoadData
    \/ Navigate
    \/ Introduction
    \/ DataExploration
    \/ VizAgeProportions
    \/ VizMechanism
    \/ VizYearProportions
    \/ VizPerCapita
    \/ VizCorrelation
    \/ Conclusions
    \/ Rerun

Spec == Init /\ [][Next]_vars

\* ------------------------------------------------- vocabulary of the claims
Charts == {"chart1", "chart2", "chart3", "chart4", "chart5"}

RunEnded == pc \in {"done", "halted"}

RECURSIVE SetSum(_, _)
\* the sum of f over the set S
SetSum(f, S) ==
    IF S = {} THEN 0
    ELSE LET x == CHOOSE y \in S : TRUE IN f[x] + SetSum(f, S \ {x})

\* the rows of table t whose column g holds k, and their summed value
RowsWith(t, g, k) == SelectSeq(t, LAMBDA r : r[g] = k)
GroupTotal(t, g, v, k) == SumSeq(Column(RowsWith(t, g, k), v))

\* the cells of group k in a proportions frame, and those holding a number
CellsOf(P, k) == {p \in DOMAIN P : p[1] = k}
NumCellsOf(P, k) == {p \in CellsOf(P, k) : P[p].kind = "num"}

\* the cell (k, c) of a proportions frame; an absent column reads as NaN
Lookup(P, k, c) == IF <<k, c>> \in DOMAIN P THEN P[<<k, c>>] ELSE NaN

\* table t without the rows of group k
Without(t, g, k) == SelectSeq(t, LAMBDA r : r[g] # k)

\* the row of service s in a per-service frame
RowOf(d, s) == d[CHOOSE i \in 1..Len(d) : d[i].service = s]

\* table m with the diagnosed count of every row of service s doubled
Doubled(m, s) ==
    [i \in 1..Len(m) |->
        IF m[i].service = s /\ m[i].diagnosed # NA
        THEN [m[i] EXCEPT !.diagnosed = 2 * @] ELSE m[i]]

\* ---------------------------------------------------------------- C1
SumsTo100(P, t, g) ==
    \A k \in Keys(t, g) :
        LET tot == GroupTotal(t, g, "number_est", k)
            cells == NumCellsOf(P, k)
        IN  tot > 0 =>
              /\ cells # {}
              /\ \A p \in cells : P[p].den = tot
              /\ SetSum([p \in cells |-> P[p].num], cells) = 100 * tot

MassPreserved(t, g, c) ==
    LET S == GroupBy2Sum(t, g, c, "number_est")
    IN  /\ SetSum(S, DOMAIN S) = SumSeq(Column(t, "number_est"))
        /\ \A i \in 1..Len(t) :
              Cardinality({k \in DOMAIN S : k[1] = t[i][g] /\ k[2] = t[i][c]}) = 1

Mapped(s) == s \in DOMAIN recruitment_numbers

\* C3: a mapped service's diagnosed_per_1000 is its diagnosed sum times 1000
\* over its recruitment constant; doubling the service's diagnosed counts
\* doubles the numerator over the same denominator and leaves the rows of the
\* other services as they were
C3_PerCapitaDoubles ==
    "military_service_data" \in computed =>
        \A s \in Keys(military, "service") :
            LET r == RowOf(military_service_data, s)
                d2 == perCapitaByService(Doubled(military, s))
            IN  /\ Mapped(s) =>
                      /\ r.diagnosed_per_1000 =
                            Num(1000 * GroupTotal(military, "service", "diagnosed", s),
                                recruitment_numbers[s])
                      /\ RowOf(d2, s).diagnosed_per_1000 =
                            Num(2 * r.diagnosed_per_1000.num, r.diagnosed_per_1000.den)
                /\ \A o \in Keys(military, "service") \ {s} :
                      RowOf(d2, o) = RowOf(military_service_data, o)

C3_Witness ==
    /\ "military_service_data" \in computed
    /\ Len(military_service_data) = 4
    /\ \E i \in 1..4 : /\ military_service_data[i].service = "Army"
                       /\ military_service_data[i].diagnosed = 2 + 2 * MaxVal

\* ---------------------------------------------------------------- C4
Unmapped(d) == {i \in 1..Len(d) : ~Mapped(d[i].service)}

\* C4 as claimed: a service absent from the recruitment mapping gets no
\* defined value and the run ends in an error that names the service
C4_Original ==
    "military_service_data" \in computed =>
        \A i \in Unmapped(military_service_data) :
            /\ military_service_data[i].diagnosed_per_1000.kind # "num"
            /\ military_service_data[i].service \in error.names

\* C4: a service absent from the recruitment mapping gets NaN as recruited
\* and as diagnosed_per_1000, never a number, and no error of the run names
\* the service
C4_UnmappedServiceIsNaN ==
    "military_service_data" \in computed =>
        \A i \in Unmapped(military_service_data) :
            /\ military_service_data[i].recruited = NaN
            /\ military_service_data[i].diagnosed_per_1000 = NaN
            /\ military_service_data[i].service \notin error.names

C4_Witness ==
    /\ "military_service_data" \in computed
    /\ Len(military_service_data) = 4
    /\ \E i \in 1..4 : /\ military_service_data[i].service = "Coast Guard"
                       /\ military_service_data[i].diagnosed > 0
    /\ "chart5" \in rendered

\* ---------------------------------------------------------------- C5
\* C5 as claimed: no file is read more than once in the life of the process
C5_Original == \A f \in Files : reads[f] <= 1

\* C5: a load_data call reads no file twice, and once a call has succeeded
\* every file has been read exactly once by that call and is not read again:
\* later calls bind the memoized tables
C5_ReadOnceAfterSuccess ==
    /\ \A f \in Files : Occurrences(callReads, f) <= 1
    /\ cached => \A f \in Files : reads[f] = 1
    /\ (loaded /\ callReads = <<>>) =>
            /\ cached
            /\ age = cache.a /\ military = cache.m /\ year = cache.y

C5_Witness ==
    /\ cached /\ loaded /\ callReads = <<>>
    /\ pc = "done" /\ radio = "Conclusions"
    /\ \A f \in Files : reads[f] = 1

\* ---------------------------------------------------------------- C6
AggregationFailed == pc = "halted" /\ error.type \in {"plot", "pie"}

FailedChart ==
    IF error.type = "pie" THEN "chart4"
    ELSE IF "proportions_by_year_type" \in computed THEN "chart3" ELSE "chart1"

\* C6 as claimed: when one chart's computation fails, the other charts of
\* the run are rendered
C6_Original == AggregationFailed => (Charts \ {FailedChart}) \subseteq rendered

ChartNo(c) ==
    IF c = "chart1" THEN 1 ELSE IF c = "chart2" THEN 2
    ELSE IF c = "chart3" THEN 3 ELSE IF c = "chart4" THEN 4 ELSE 5

\* C6: an error raised by one chart ends the run there: the charts before it
\* are rendered, it and the charts after it are not; a rendered chart had a
\* frame its plot accepts; the memoized tables stay, so a later run renders
\* any section from them
C6_ErrorEndsTheRun ==
    /\ AggregationFailed =>
          /\ rendered \cap Charts = {c \in Charts : ChartNo(c) < ChartNo(FailedChart)}
          /\ cached
          /\ cache = [a |-> disk["tbi_age.csv"].rows,
                      m |-> disk["tbi_military.csv"].rows,
                      y |-> disk["tbi_year.csv"].rows]
    /\ "chart1" \in rendered => DOMAIN proportions_by_age_type # {}
    /\ "chart3" \in rendered => DOMAIN proportions_by_year_type # {}
    /\ "chart4" \in rendered => Len(military_service_data) = Len(explode)
    /\ \A c \in rendered \cap Charts :
          \A b \in Charts : ChartNo(b) < ChartNo(c) => b \in rendered

C6_Witness ==
    /\ AggregationFailed /\ error.type = "pie"
    /\ Len(military_service_data) = 3
    /\ rendered \cap Charts = {"chart1", "chart2", "chart3"}

\* ---------------------------------------------------------------- C7
ZeroGroupIsNaN(P, t, g) ==
    \A k \in Keys(t, g) :
        GroupTotal(t, g, "number_est", k) = 0 =>
            /\ \A p \in CellsOf(P, k) : P[p] = NaN
            /\ LET Q == proportionsByGroup(Without(t, g, k), g, "type", "number_est")
               IN  \A h \in Keys(t, g) \ {k} : \A c \in Keys(t, "type") :
                      Lookup(P, h, c) = Lookup(Q, h, c)

\* C7: a group whose total is 0 does not end the computation: its chart is
\* rendered, the group's percentages are NaN, and every other group has the
\* percentages it has in the table without the zero-total group
C7_ZeroTotalGroup ==
    /\ "proportions_by_age_type" \in computed =>
          /\ ZeroGroupIsNaN(proportions_by_age_type, age, "age_group")
          /\ age # <<>> => "chart1" \in rendered
    /\ "proportions_by_year_type" \in computed =>
          /\ ZeroGroupIsNaN(proportions_by_year_type, year, "year")
          /\ year # <<>> => "chart3" \in rendered

C7_Witness ==
    /\ "proportions_by_age_type" \in computed
    /\ "chart1" \in rendered
    /\ \E k, h \in Keys(age, "age_group") :
          /\ GroupTotal(age, "age_group", "number_est", k) = 0
          /\ GroupTotal(age, "age_group", "number_est", h) > 0

\* ---------------------------------------------------------------- C8
FirstBad(s) ==
    /\ s # <<>>
    /\ ~disk[s[Len(s)]].ok
    /\ \A i \in 1..(Len(s) - 1) : disk[s[i]].ok
    /\ s = SubSeq(ReadOrder, 1, Len(s))

\* C8: when one of the three files cannot be read, load_data returns nothing
\* and memoizes nothing, the call stops at the first file that fails without
\* reading it again or reading the files after it, the run ends there, and no
\* section, table or chart is rendered
C8_LoadIsAllOrNothing ==
    (\E f \in Files : ~disk[f].ok) =>
        /\ ~cached /\ cache = EmptyTables
        /\ ~loaded /\ age = <<>> /\ military = <<>> /\ year = <<>>
        /\ rendered \cap (Sections \cup Datasets \cup Charts) = {}
        /\ computed = {}
        /\ pc \in {"start", "halted"}
        /\ pc = "halted" => error.type = "read_csv" /\ FirstBad(callReads)

C8_Witness ==
    /\ pc = "halted" /\ error.type = "read_csv"
    /\ callReads = <<"tbi_age.csv", "tbi_military.csv">>
    /\ reads["tbi_age.csv"] = 2
    /\ disk["tbi_year.csv"].ok

\* ---------------------------------------------------------------- C9
\* C9: in every state of a run that has loaded, age, military and year are the
\* tables load_data returned, row for row and column for column
C9_TablesNeverMutated ==
    loaded =>
        /\ cached
        /\ age = cache.a /\ military = cache.m /\ year = cache.y
        /\ cache.a = disk["tbi_age.csv"].rows
        /\ cache.m = disk["tbi_military.csv"].rows
        /\ cache.y = disk["tbi_year.csv"].rows

C9_Witness ==
    /\ loaded /\ pc = "done"
    /\ Charts \subseteq rendered
    /\ military_service_data # <<>>
    /\ \A i \in 1..Len(military_service_data) :
          DOMAIN military_service_data[i] # DOMAIN military[1]
    /\ military_service_data[1].service # military[1].service

\* --------------------------------------------------------------- C10
TableOf(d) ==
    IF d = "Civilian Data" THEN age
    ELSE IF d = "Military Data" THEN military ELSE year

Dispatched ==
    /\ rendered \cap Sections = {radio}
    /\ (computed # {}) <=> (radio = "Visualizations")
    /\ radio = "Data Exploration" =>
          /\ rendered \cap Datasets = {selectbox}
          /\ written = HeadOf(TableOf(selectbox))
    /\ radio # "Data Exploration" =>
          /\ rendered \cap Datasets = {}
          /\ written = <<>>

\* C10 as claimed: every run renders exactly the selected section
C10_Original == RunEnded => Dispatched

\* C10: every run in which load_data succeeded renders exactly the selected
\* section; aggregations are computed if and only if that section is
\* Visualizations, and Data Exploration shows exactly the selected table
C10_SectionDispatch ==
    /\ (RunEnded /\ loaded) => Dispatched
    /\ computed # {} => radio = "Visualizations"
    /\ Cardinality(rendered \cap Sections) <= 1
    /\ Cardinality(rendered \cap Datasets) <= 1

C10_Witness ==
    /\ RunEnded /\ loaded
    /\ radio = "Data Exploration" /\ selectbox = "Military Data"
    /\ written = Base4
    /\ reads["tbi_age.csv"] = 1

====
